---- MODULE Spec2Model ----
(***************************************************************************)
(* Model of metaproperties_no_slots.py: the bulk attribute initializer     *)
(* self_properties and the property builder properties.prop.               *)
(*                                                                         *)
(* An instance is its attribute dictionary (attrs) plus the callables that *)
(* attribute lookup finds under the listener names (methods).  A class is  *)
(* the mapping from declared property names to the descriptors that        *)
(* properties.prop produced (cls).                                         *)
(***************************************************************************)
EXTENDS Integers, Sequences, FiniteSets, TLC

\* ------------------------------------------------------------------------
\* Bounds of the model
\* ------------------------------------------------------------------------
MaxDepth == 2     \* listener invocations that may be active at once
MaxScope == 3     \* entries of a mapping handed to self_properties
MaxAssign == 1    \* assignments each concurrent thread performs

\* ------------------------------------------------------------------------
\* Python values
\* ------------------------------------------------------------------------
Val(t, n) == [t |-> t, n |-> n, items |-> <<>>]
Absent == Val("absent", 0)        \* the attribute is not in the instance
None == Val("none", 0)
True == Val("bool", 1)
PyInt(k) == Val("int", k)
Obj == Val("object", 0)           \* the instance itself (the value of 'self')
Tuple(s) == [t |-> "tuple", n |-> 0, items |-> s]

\* the values a caller assigns or passes
Values == {None, PyInt(0), PyInt(1), True}

IsNum(a) == a.t \in {"int", "bool"}

\* Python's == on the values above: bool is a subclass of int (True == 1),
\* None and objects equal only themselves, tuples compare element by element
PyEq(a, b) ==
    IF IsNum(a) /\ IsNum(b) THEN a.n = b.n
    ELSE IF a.t = "tuple" /\ b.t = "tuple"
         THEN /\ Len(a.items) = Len(b.items)
              /\ \A i \in 1..Len(a.items) :
                     IF IsNum(a.items[i]) /\ IsNum(b.items[i])
                     THEN a.items[i].n = b.items[i].n
                     ELSE a.items[i] = b.items[i]
         ELSE a = b

\* old != new
PyNeIdentity(old, new) == old # new
PyNeAlways(old, new) == TRUE
PyNe(old, new) == ~PyEq(old, new)

\* ------------------------------------------------------------------------
\* Names
\* ------------------------------------------------------------------------
PropNames == {"speed"}
Keys == {"self", "speed", "args", "is_dirty"}

\* '_' + f.__name__  and  '_' + k
Field(name) == "_" \o name

DirtyFlag == "_is_dirty"
ArgsField == "_args"

AttrNames == {Field(k) : k \in Keys \cup PropNames} \cup {DirtyFlag, ArgsField}

ListenerNames == {"_changed", "_on_change"}
NoMethod == "<unbound>"
MethodBodies == {"m1", "m2"}

\* getattr(inst, name, default) and setattr(inst, name, value) on the
\* instance dictionary
GetAttr(a, name, default) == IF a[name] = Absent THEN default ELSE a[name]
HasAttr(a, name) == a[name] # Absent
SetAttr(a, name, v) == [a EXCEPT ![name] = v]

\* one observable step of a call: an attribute write, an attribute lookup
\* or a call
Ev(e, name, field, old, val) ==
    [e |-> e, name |-> name, field |-> field, old |-> old, val |-> val]
EvSet(name, v) == Ev("setattr", name, "", Absent, v)
EvGet(name) == Ev("getattr", name, "", Absent, Absent)
EvCall(name, args) == Ev("call", name, args[1], args[2], args[3])

\* ------------------------------------------------------------------------
\* properties.prop: the declaration of one property
\* ------------------------------------------------------------------------
\* the listener argument: absent (None), a bool, or a name string
LNone == [t |-> "none", b |-> FALSE, s |-> ""]
LBool(b) == [t |-> "bool", b |-> b, s |-> ""]
LStr(s) == [t |-> "str", b |-> FALSE, s |-> s]
ListenerArgs == {LNone, LBool(FALSE), LBool(TRUE), LStr(""), LStr("_on_change")}

\* Python truth of the listener argument
Truthy(listener) ==
    \/ listener.t = "bool" /\ listener.b
    \/ listener.t = "str" /\ listener.s # ""

\* auto_dirty = self._auto_dirty or auto_dirty
EffectiveAutoDirtyOwn(ctx_auto_dirty, auto_dirty) == auto_dirty
EffectiveAutoDirty(ctx_auto_dirty, auto_dirty) == ctx_auto_dirty \/ auto_dirty

\* if read_only and listener: raise ValueError
RejectsNamedOnly(read_only, listener) ==
    read_only /\ listener.t = "str" /\ listener.s # ""
Rejects(read_only, listener) == read_only /\ Truthy(listener)

\* listener_name = listener if isinstance(listener, str) else '_changed'
ListenerName(listener) == IF listener.t = "str" THEN listener.s ELSE "_changed"

\* which setter the decorator builds: None, the notifying one or the plain one
SetterKindWritable(read_only, listener) ==
    IF Truthy(listener) THEN "listening" ELSE "plain"
SetterKind(read_only, listener) ==
    IF read_only THEN "none"
    ELSE IF Truthy(listener) THEN "listening" ELSE "plain"

\* the default-value function f of the declarations (it returns 0, as the
\* getter body of the usage example does)
DefaultValue == PyInt(0)

NoDesc == [fset |-> "undeclared", field |-> "", listener_name |-> "",
           auto_dirty |-> FALSE]

\* decorator(f): the ValueError, or property(getter, setter, None, doc).
\* The descriptor holds what its closures captured: the field, and for a
\* setter the effective auto_dirty and the listener's name.
Decorator(name, read_only, listener, auto_dirty) ==
    IF Rejects(read_only, listener)
    THEN [error |-> "ValueError", desc |-> NoDesc]
    ELSE LET kind == SetterKind(read_only, listener) IN
         [error |-> "",
          desc |-> [fset |-> kind,
                    field |-> Field(name),
                    listener_name |-> IF kind = "listening"
                                      THEN ListenerName(listener) ELSE "",
                    auto_dirty |-> kind # "none" /\ auto_dirty]]

\* ------------------------------------------------------------------------
\* The getter and the setters
\* ------------------------------------------------------------------------
\* lambda inst: getattr(inst, field, f(inst)): the argument f(inst) is
\* evaluated before getattr is called
Getter(a, d) ==
    [result |-> GetAttr(a, d.field, DefaultValue),
     trace |-> <<Ev("call", "f", "", Absent, DefaultValue)>>]

\* the arguments of the listener call: (field, old, new)
NotifyArgsSwapped(field, old, new) == <<field, new, old>>
NotifyArgs(field, old, new) == <<field, old, new>>

NoFrame == [name |-> "", method |-> NoMethod, field |-> "", old |-> Absent,
            new |-> Absent]

\* what the model keeps of a listener invocation while its body runs
Running(frame) ==
    [name |-> frame.name, method |-> frame.method, field |-> frame.field]

\* getattr(inst, listener_name): the callable bound under the name now
ResolveAtDeclaration(m, name) == "m1"
Resolve(m, name) == m[name]

\* setter(inst, new), both variants.  a: the instance attributes, m: the
\* callables attribute lookup finds, d: the descriptor.  The result is the
\* state at the point where the listener's body starts to run (or where the
\* setter returns or raises).
SetterNotifyFirst(a, m, d, new) ==
    LET old == GetAttr(a, d.field, None)
        lname == d.listener_name
        args == NotifyArgs(d.field, old, new)
    IN  IF PyNe(old, new) /\ d.fset = "listening" /\ Resolve(m, lname) # NoMethod
        THEN [attrs |-> a, old |-> old, fired |-> TRUE,
              trace |-> <<EvGet(lname), EvCall(lname, args)>>,
              outcome |-> "ok",
              frame |-> [name |-> lname, method |-> Resolve(m, lname),
                         field |-> args[1], old |-> args[2], new |-> args[3]]]
        ELSE [attrs |-> a, old |-> old, fired |-> FALSE, trace |-> <<>>,
              outcome |-> "ok", frame |-> NoFrame]
Setter(a, m, d, new) ==
    LET old == GetAttr(a, d.field, None)
        a1 == SetAttr(a, d.field, new)
        a2 == IF d.auto_dirty THEN SetAttr(a1, DirtyFlag, True) ELSE a1
        writes == <<EvSet(d.field, new)>> \o
                  (IF d.auto_dirty THEN <<EvSet(DirtyFlag, True)>> ELSE <<>>)
        lname == d.listener_name
        args == NotifyArgs(d.field, old, new)
    IN  IF ~PyNe(old, new)
        THEN [attrs |-> a, old |-> old, fired |-> FALSE, trace |-> <<>>,
              outcome |-> "ok", frame |-> NoFrame]
        ELSE IF d.fset = "plain"
        THEN [attrs |-> a2, old |-> old, fired |-> TRUE, trace |-> writes,
              outcome |-> "ok", frame |-> NoFrame]
        ELSE IF Resolve(m, lname) = NoMethod
        THEN [attrs |-> a2, old |-> old, fired |-> TRUE,
              trace |-> writes \o <<EvGet(lname)>>,
              outcome |-> "AttributeError", frame |-> NoFrame]
        ELSE [attrs |-> a2, old |-> old, fired |-> TRUE,
              trace |-> writes \o <<EvGet(lname), EvCall(lname, args)>>,
              outcome |-> "ok",
              frame |-> [name |-> lname, method |-> Resolve(m, lname),
                         field |-> args[1], old |-> args[2], new |-> args[3]]]

\* ------------------------------------------------------------------------
\* self_properties
\* ------------------------------------------------------------------------
\* if k != 'self' and k not in exclude  (the loop of the save_args branch)
CopiedSavingAll(k, exclude) == k \notin exclude
CopiedSaving(k, exclude) == k # "self" /\ k \notin exclude
\* the same test in the loop of the other branch
CopiedPlain(k, exclude) == k # "self" /\ k \notin exclude

RECURSIVE CopyLoop(_, _, _, _, _)
CopyLoop(r, scope, exclude, save_args, i) ==
    IF i > Len(scope) THEN r
    ELSE LET k == scope[i].k
             v == scope[i].v
             copy == IF save_args THEN CopiedSaving(k, exclude)
                     ELSE CopiedPlain(k, exclude)
         IN  IF copy
             THEN CopyLoop([attrs |-> SetAttr(r.attrs, Field(k), v),
                            trace |-> Append(r.trace, EvSet(Field(k), v)),
                            args |-> Append(r.args, v)],
                           scope, exclude, save_args, i + 1)
             ELSE CopyLoop(r, scope, exclude, save_args, i + 1)

SelfProperties(a, scope, exclude, save_args) ==
    LET r == CopyLoop([attrs |-> a, trace |-> <<>>, args |-> <<>>],
                      scope, exclude, save_args, 1)
    IN  IF save_args
        THEN [attrs |-> SetAttr(r.attrs, ArgsField, Tuple(r.args)),
              trace |-> Append(r.trace, EvSet(ArgsField, Tuple(r.args)))]
        ELSE [attrs |-> r.attrs, trace |-> r.trace]

\* ------------------------------------------------------------------------
\* State
\* ------------------------------------------------------------------------
VARIABLES
    ctx,      \* the properties(...) object: _scope, _var, _auto_dirty
    cls,      \* the class body's namespace: property name -> descriptor
    phase,    \* "body" (class body running), "aborted" (it raised),
              \* "class" (class created), "live" (an instance exists)
    attrs,    \* the instance's attributes: name -> value or Absent
    methods,  \* listener name -> the callable getattr(inst, name) finds
    stack,    \* the listener invocations whose bodies are running, innermost last
    lastOp,   \* the operation the last step performed, and what it did
    top,      \* the last operation the caller started outside any listener
    thr,      \* concurrent setters: per thread its position and locals
    hist,     \* concurrent setters: the values the backing field has held
    notifs,   \* concurrent setters: the listener calls made, in order
    raced     \* concurrent setters: some write used a stale old value

vars == <<ctx, cls, phase, attrs, methods, stack, lastOp, top, thr, hist,
          notifs, raced>>

Threads == {"t1", "t2"}

NoOp == [kind |-> "none"]
NoTop == [kind |-> "none", p |-> "", v |-> Absent, fired |-> FALSE,
          outcome |-> "ok", touched |-> FALSE]
IdleThread == [pc |-> "idle", new |-> Absent, old |-> Absent, done |-> 0]

concVars == <<thr, hist, notifs, raced>>

\* properties(scope, var_name, auto_dirty).__init__ followed by __enter__
CtxInit(auto_dirty) ==
    [_scope |-> "locals", _var |-> "meta", _auto_dirty |-> auto_dirty]

Init ==
    /\ \E ad \in BOOLEAN : ctx = CtxInit(ad)
    /\ cls = [p \in PropNames |-> NoDesc]
    /\ phase = "body"
    /\ attrs = [n \in AttrNames |-> Absent]
    /\ methods = [n \in ListenerNames |-> "m1"]
    /\ stack = <<>>
    /\ lastOp = NoOp
    /\ top = NoTop
    /\ thr = [t \in Threads |-> IdleThread]
    /\ hist = <<>>
    /\ notifs = <<>>
    /\ raced = FALSE

\* ------------------------------------------------------------------------
\* Declaration time
\* ------------------------------------------------------------------------
\* @meta.prop(read_only, listener, auto_dirty) def name(self): ...
Declare(name, read_only, listener, auto_dirty) ==
    /\ phase = "body"
    /\ cls[name] = NoDesc
    /\ LET r == Decorator(name, read_only, listener,
                          EffectiveAutoDirty(ctx._auto_dirty, auto_dirty))
       IN  /\ cls' = IF r.error = "" THEN [cls EXCEPT ![name] = r.desc] ELSE cls
           /\ phase' = IF r.error = "" THEN "body" ELSE "aborted"
           /\ lastOp' = [kind |-> "declare", p |-> name, read_only |-> read_only,
                         listener |-> listener, auto_dirty |-> auto_dirty,
                         outcome |-> IF r.error = "" THEN "ok" ELSE r.error]
    /\ UNCHANGED <<ctx, attrs, methods, stack, top, concVars>>

\* __exit__: the references are dropped; the class body ends
Exit ==
    /\ phase = "body"
    /\ ctx' = [ctx EXCEPT !._scope = "None", !._var = "None"]
    /\ phase' = "class"
    /\ lastOp' = [kind |-> "exit"]
    /\ UNCHANGED <<cls, attrs, methods, stack, top, concVars>>

\* the first instance of the class is created
NewInstance ==
    /\ phase = "class"
    /\ phase' = "live"
    /\ lastOp' = [kind |-> "new"]
    /\ UNCHANGED <<ctx, cls, attrs, methods, stack, top, concVars>>

\* ------------------------------------------------------------------------
\* Use of an instance by one thread
\* ------------------------------------------------------------------------
Declared == {p \in PropNames : cls[p] # NoDesc}

\* the record of an operation the caller starts outside any listener, or
\* the note, on the enclosing operation, that a nested step changed the
\* backing field the enclosing operation assigned
TopAfter(kind, p, v, fired, outcome, attrsAfter) ==
    IF stack = <<>>
    THEN [kind |-> kind, p |-> p, v |-> v, fired |-> fired,
          outcome |-> outcome, touched |-> FALSE]
    ELSE [top EXCEPT !.touched =
              top.touched \/ (top.kind = "write" /\
                              attrsAfter[Field(top.p)] # attrs[Field(top.p)])]

\* for an assignment the caller makes outside any listener: the operation
\* the caller made just before it
Before == IF stack = <<>> THEN top ELSE NoTop

\* an exception leaves the listener bodies it passes through; each of them
\* may catch it
Unwound == {SubSeq(stack, 1, k) : k \in 0..Len(stack)}

\* inst.p (a read)
Read(p) ==
    /\ phase = "live"
    /\ p \in Declared
    /\ LET r == Getter(attrs, cls[p])
       IN  /\ lastOp' = [kind |-> "read", p |-> p, result |-> r.result,
                         trace |-> r.trace, outcome |-> "ok"]
           /\ top' = TopAfter("read", p, Absent, FALSE, "ok", attrs)
    /\ UNCHANGED <<ctx, cls, phase, attrs, methods, stack, concVars>>

\* inst.p = v
Write(p, v) ==
    /\ phase = "live"
    /\ p \in Declared
    /\ Len(stack) < MaxDepth
    /\ IF cls[p].fset = "none"
       THEN \* property.__set__ with fset None: "can't set attribute"
            /\ attrs' = attrs
            /\ stack' \in Unwound
            /\ lastOp' = [kind |-> "write", p |-> p, v |-> v, old |-> Absent,
                          fired |-> FALSE, trace |-> <<>>,
                          outcome |-> "AttributeError", frame |-> NoFrame,
                          before |-> Before]
            /\ top' = TopAfter("write", p, v, FALSE, "AttributeError", attrs)
       ELSE LET r == Setter(attrs, methods, cls[p], v)
            IN  /\ attrs' = r.attrs
                /\ IF r.outcome = "ok"
                   THEN stack' = IF r.frame = NoFrame THEN stack
                                 ELSE Append(stack, Running(r.frame))
                   ELSE stack' \in Unwound
                /\ lastOp' = [kind |-> "write", p |-> p, v |-> v, old |-> r.old,
                              fired |-> r.fired, trace |-> r.trace,
                              outcome |-> r.outcome, frame |-> r.frame,
                              before |-> Before]
                /\ top' = TopAfter("write", p, v, r.fired, r.outcome, r.attrs)
    /\ UNCHANGED <<ctx, cls, phase, methods, concVars>>

\* the body of a running listener assigns a backing field directly
\* (self._speed = 0 in the usage example)
DirectSet(p, v) ==
    /\ phase = "live"
    /\ stack # <<>>
    /\ attrs' = SetAttr(attrs, Field(p), v)
    /\ lastOp' = [kind |-> "setattr", p |-> p, v |-> v]
    /\ top' = TopAfter("setattr", p, v, FALSE, "ok", attrs')
    /\ UNCHANGED <<ctx, cls, phase, methods, stack, concVars>>

\* the innermost running listener returns
Return ==
    /\ phase = "live"
    /\ stack # <<>>
    /\ stack' = SubSeq(stack, 1, Len(stack) - 1)
    /\ lastOp' = [kind |-> "return"]
    /\ UNCHANGED <<ctx, cls, phase, attrs, methods, top, concVars>>

\* the method found under a listener name is replaced (overridden,
\* reassigned on the instance) or removed
Bind(name, m) ==
    /\ phase = "live"
    /\ stack = <<>>
    /\ \E p \in Declared : cls[p].listener_name = name
    /\ methods[name] # m
    /\ methods' = [methods EXCEPT ![name] = m]
    /\ lastOp' = [kind |-> "bind", name |-> name]
    /\ top' = TopAfter("bind", "", Absent, FALSE, "ok", attrs)
    /\ UNCHANGED <<ctx, cls, phase, attrs, stack, concVars>>

\* the mappings handed to self_properties: distinct keys in iteration
\* order, 'self' bound to the instance
Entries == {[k |-> k, v |-> v] : k \in Keys \ {"self"}, v \in Values}
               \cup {[k |-> "self", v |-> Obj]}
Scopes(n) ==
    {s \in UNION {[1..m -> Entries] : m \in 0..n} :
        \A i, j \in 1..Len(s) : i # j => s[i].k # s[j].k}
Excludes == {{}} \cup {{k} : k \in Keys \ {"self"}}

\* self_properties(self, scope, exclude, save_args)
BulkInit(scope, exclude, save_args) ==
    /\ phase = "live"
    /\ stack = <<>>
    /\ LET r == SelfProperties(attrs, scope, exclude, save_args)
       IN  /\ attrs' = r.attrs
           /\ lastOp' = [kind |-> "bulk", scope |-> scope, exclude |-> exclude,
                         save_args |-> save_args, trace |-> r.trace]
           /\ top' = TopAfter("bulk", "", Absent, FALSE, "ok", r.attrs)
    /\ UNCHANGED <<ctx, cls, phase, methods, stack, concVars>>

\* the constructor of the usage example: self_properties(self, locals())
\* with the instance and one argument in scope
CtorScopes(keys) ==
    {<<[k |-> "self", v |-> Obj], [k |-> k, v |-> v]>> :
        k \in keys \ {"self"}, v \in Values}

Next ==
    \/ \E p \in PropNames, ro \in BOOLEAN, l \in ListenerArgs, ad \in BOOLEAN :
           Declare(p, ro, l, ad)
    \/ Exit
    \/ NewInstance
    \/ \E p \in PropNames : Read(p)
    \/ \E p \in PropNames, v \in Values : Write(p, v)
    \/ \E p \in PropNames, v \in Values : DirectSet(p, v)
    \/ Return
    \/ \E n \in ListenerNames, m \in MethodBodies \cup {NoMethod} : Bind(n, m)
    \/ \E s \in CtorScopes(PropNames), sa \in BOOLEAN : BulkInit(s, {}, sa)

Spec == Init /\ [][Next]_vars

\* the operations of the utility alone (no user code inside listeners),
\* with constructor arguments of any name
NextUtility ==
    \/ \E p \in PropNames, ro \in BOOLEAN, l \in ListenerArgs, ad \in BOOLEAN :
           Declare(p, ro, l, ad)
    \/ Exit
    \/ NewInstance
    \/ \E p \in PropNames : Read(p)
    \/ \E p \in PropNames, v \in Values : Write(p, v)
    \/ Return
    \/ \E s \in CtorScopes(Keys), sa \in BOOLEAN : BulkInit(s, {}, sa)

SpecUtility == Init /\ [][NextUtility]_vars

\* self_properties called once on an instance of a class without
\* properties: a fresh instance, or one that already carries attributes
UsedAttrs ==
    [n \in AttrNames |->
        IF n = ArgsField THEN Tuple(<<PyInt(0)>>)
        ELSE IF n = DirtyFlag THEN True
        ELSE IF n = Field("speed") THEN PyInt(1)
        ELSE Absent]

InitBulk ==
    /\ ctx = [CtxInit(FALSE) EXCEPT !._scope = "None", !._var = "None"]
    /\ cls = [p \in PropNames |-> NoDesc]
    /\ phase = "live"
    /\ attrs \in {[n \in AttrNames |-> Absent], UsedAttrs}
    /\ methods = [n \in ListenerNames |-> "m1"]
    /\ stack = <<>>
    /\ lastOp = NoOp
    /\ top = NoTop
    /\ thr = [t \in Threads |-> IdleThread]
    /\ hist = <<>>
    /\ notifs = <<>>
    /\ raced = FALSE

NextBulk ==
    /\ lastOp = NoOp
    /\ \E s \in Scopes(MaxScope), ex \in Excludes, sa \in BOOLEAN :
           BulkInit(s, ex, sa)

SpecBulk == InitBulk /\ [][NextBulk]_vars

\* ------------------------------------------------------------------------
\* Two threads assigning the same listener-observed property of one
\* instance, the setter taken one statement at a time
\* ------------------------------------------------------------------------
ConcProp == "speed"
ConcValues == {None, PyInt(0), PyInt(1)}

ConcDesc(auto_dirty) ==
    Decorator(ConcProp, FALSE, LStr("_on_change"), auto_dirty).desc

InitConc ==
    /\ \E ad \in BOOLEAN :
          /\ ctx = [CtxInit(ad) EXCEPT !._scope = "None", !._var = "None"]
          /\ cls = [p \in PropNames |->
                       IF p = ConcProp THEN ConcDesc(ad) ELSE NoDesc]
    /\ phase = "live"
    /\ attrs = [n \in AttrNames |-> Absent]
    /\ methods = [n \in ListenerNames |-> "m1"]
    /\ stack = <<>>
    /\ lastOp = NoOp
    /\ top = NoTop
    /\ thr = [t \in Threads |-> IdleThread]
    /\ hist = <<None>>
    /\ notifs = <<>>
    /\ raced = FALSE

seqVars == <<ctx, cls, phase, methods, stack, lastOp, top>>

\* inst.speed = v is called: setter(inst, new) is entered
Enter(t, v) ==
    /\ thr[t].pc = "idle"
    /\ thr[t].done < MaxAssign
    /\ thr' = [thr EXCEPT ![t] = [pc |-> "read", new |-> v, old |-> Absent,
                                  done |-> thr[t].done + 1]]
    /\ UNCHANGED <<attrs, hist, notifs, raced, seqVars>>

\* old = getattr(inst, field, None)
ReadOld(t) ==
    /\ thr[t].pc = "read"
    /\ thr' = [thr EXCEPT ![t].pc = "compare",
                          ![t].old = GetAttr(attrs, cls[ConcProp].field, None)]
    /\ UNCHANGED <<attrs, hist, notifs, raced, seqVars>>

\* if old != new:
Compare(t) ==
    /\ thr[t].pc = "compare"
    /\ thr' = [thr EXCEPT ![t].pc = IF PyNe(thr[t].old, thr[t].new)
                                    THEN "write" ELSE "idle"]
    /\ UNCHANGED <<attrs, hist, notifs, raced, seqVars>>

\* setattr(inst, field, new)
WriteField(t) ==
    /\ thr[t].pc = "write"
    /\ attrs' = SetAttr(attrs, cls[ConcProp].field, thr[t].new)
    /\ hist' = Append(hist, thr[t].new)
    /\ raced' = (raced \/ GetAttr(attrs, cls[ConcProp].field, None) # thr[t].old)
    /\ thr' = [thr EXCEPT ![t].pc = "dirty"]
    /\ UNCHANGED <<notifs, seqVars>>

\* if auto_dirty: inst._is_dirty = True
MarkDirty(t) ==
    /\ thr[t].pc = "dirty"
    /\ attrs' = IF cls[ConcProp].auto_dirty THEN SetAttr(attrs, DirtyFlag, True)
                ELSE attrs
    /\ thr' = [thr EXCEPT ![t].pc = "notify"]
    /\ UNCHANGED <<hist, notifs, raced, seqVars>>

\* (getattr(inst, listener_name))(field, old, new); the listener returns
Notify(t) ==
    /\ thr[t].pc = "notify"
    /\ notifs' = Append(notifs,
                        NotifyArgs(cls[ConcProp].field, thr[t].old, thr[t].new))
    /\ thr' = [thr EXCEPT ![t].pc = "idle"]
    /\ UNCHANGED <<attrs, hist, raced, seqVars>>

NextConc ==
    \/ \E t \in Threads, v \in ConcValues : Enter(t, v)
    \/ \E t \in Threads : ReadOld(t)
    \/ \E t \in Threads : Compare(t)
    \/ \E t \in Threads : WriteField(t)
    \/ \E t \in Threads : MarkDirty(t)
    \/ \E t \in Threads : Notify(t)

SpecConc == InitConc /\ [][NextConc]_vars

\* ------------------------------------------------------------------------
\* Properties of the setter
\* ------------------------------------------------------------------------
\* the backing value the setter compares with: a missing field counts as None
Backing(a, p) == GetAttr(a, cls[p].field, None)

\* the writes a value-changing assignment of v to p performs, in order
ChangeWrites(p, v) ==
    <<EvSet(cls[p].field, v)>> \o
    (IF cls[p].auto_dirty THEN <<EvSet(DirtyFlag, True)>> ELSE <<>>)

\* the attributes after those writes
ChangedAttrs(a, p, v) ==
    [n \in AttrNames |->
        IF n = DirtyFlag /\ cls[p].auto_dirty THEN True
        ELSE IF n = cls[p].field THEN v
        ELSE a[n]]

C1_NameStep ==
    LET p == lastOp'.p
    IN  (/\ lastOp'.kind = "declare" /\ lastOp'.outcome = "ok"
         /\ ~lastOp'.read_only /\ Truthy(lastOp'.listener))
        => /\ cls'[p].fset = "listening"
           /\ cls'[p].listener_name =
                  IF lastOp'.listener = LBool(TRUE) THEN "_changed"
                  ELSE lastOp'.listener.s

C1_CallStep ==
    LET p == lastOp'.p
        v == lastOp'.v
        old == Backing(attrs, p)
        lname == cls[p].listener_name
    IN  (/\ lastOp'.kind = "write"
         /\ cls[p].fset = "listening"
         /\ PyNe(old, v)
         /\ methods[lname] # NoMethod)
        => /\ lastOp'.trace = ChangeWrites(p, v) \o
                  <<EvGet(lname), Ev("call", lname, cls[p].field, old, v)>>
           /\ lastOp'.outcome = "ok"
           /\ attrs' = ChangedAttrs(attrs, p, v)
           /\ Len(stack') = Len(stack) + 1
           /\ stack'[Len(stack')] = [name |-> lname, method |-> methods[lname],
                                     field |-> cls[p].field]
           /\ lastOp'.frame = [name |-> lname, method |-> methods[lname],
                               field |-> cls[p].field, old |-> old, new |-> v]

\* C1: a value-changing assignment to a property declared with a listener
\* whose method exists writes the backing field, then sets _is_dirty if
\* auto-dirty is active, then looks the listener up and calls it exactly
\* once with (field, old, new); when the listener's body starts to run the
\* backing field holds the new value and the flag is set.
C1_WriteDirtyNotify == [][C1_NameStep /\ C1_CallStep]_vars

\* the first assignment speed = 1 on a fresh instance: the listener runs
\* with ("_speed", None, 1), _speed is 1 and the flag is set
C1_Witness ==
    /\ lastOp.kind = "write"
    /\ lastOp.frame = [name |-> "_on_change", method |-> "m1",
                       field |-> "_speed", old |-> None, new |-> PyInt(1)]
    /\ stack = <<Running(lastOp.frame)>>
    /\ attrs["_speed"] = PyInt(1)
    /\ attrs[DirtyFlag] = True
    /\ Len(lastOp.trace) = 4

C2_EqualStep ==
    LET p == lastOp'.p
    IN  (/\ lastOp'.kind = "write"
         /\ cls[p].fset \in {"plain", "listening"}
         /\ PyEq(Backing(attrs, p), lastOp'.v))
        => /\ attrs' = attrs
           /\ stack' = stack
           /\ lastOp'.trace = <<>>
           /\ lastOp'.outcome = "ok"
           /\ ~lastOp'.fired

\* C2: an assignment to a writable property whose value compares equal to
\* the backing value (missing counts as None) changes no attribute, creates
\* none, and looks up and calls no listener.
C2_EqualIsNoOp == [][C2_EqualStep]_vars

\* True is assigned while the backing field holds 1: nothing happens and the
\* field still holds 1
C2_Witness ==
    /\ lastOp.kind = "write"
    /\ lastOp.v = True
    /\ cls[lastOp.p].fset = "listening"
    /\ cls[lastOp.p].auto_dirty
    /\ attrs[cls[lastOp.p].field] = PyInt(1)
    /\ attrs[DirtyFlag] = Absent
    /\ lastOp.trace = <<>>

\* the caller assigns p = v right after having assigned p = v, and the
\* first assignment changed the value
Repeated ==
    /\ lastOp.kind = "write"
    /\ lastOp.before.kind = "write"
    /\ lastOp.before.p = lastOp.p
    /\ lastOp.before.v = lastOp.v
    /\ lastOp.before.fired

\* C3 as stated: of two successive assignments of the same value, for all
\* listener bodies, the second never triggers the effects again.
C3_AtMostOnceAnyListener == Repeated => ~lastOp.fired

\* C3: of two successive assignments of the same value, the second triggers
\* no effect provided nothing that ran inside the first assignment (the
\* listener's body) changed the backing field.
C3_AtMostOnce == (Repeated /\ ~lastOp.before.touched) => ~lastOp.fired

C3_Witness ==
    /\ Repeated
    /\ ~lastOp.before.touched
    /\ cls[lastOp.p].fset = "listening"
    /\ cls[lastOp.p].auto_dirty
    /\ lastOp.v = PyInt(1)
    /\ ~lastOp.fired
    /\ lastOp.trace = <<>>

\* ------------------------------------------------------------------------
\* Properties of the declaration
\* ------------------------------------------------------------------------
\* C4 as stated: read_only with any listener other than None (a bool or a
\* name string) is refused with ValueError when declared.
C4_AnyListenerRefused ==
    (lastOp.kind = "declare" /\ lastOp.read_only /\ lastOp.listener # LNone)
    => lastOp.outcome = "ValueError"

\* C4: read_only with a listener that is true in Python (True or a
\* non-empty name) is refused with ValueError when declared: no descriptor
\* is produced, the class body is abandoned and no instance ever exists;
\* with any other listener the read-only declaration succeeds.
C4_TruthyListenerRefused ==
    /\ (lastOp.kind = "declare" /\ lastOp.read_only /\ Truthy(lastOp.listener))
       => /\ lastOp.outcome = "ValueError"
          /\ cls[lastOp.p] = NoDesc
          /\ phase = "aborted"
    /\ (lastOp.kind = "declare" /\ lastOp.read_only /\ ~Truthy(lastOp.listener))
       => /\ lastOp.outcome = "ok"
          /\ cls[lastOp.p].fset = "none"
    /\ phase = "aborted" => attrs = [n \in AttrNames |-> Absent]

C4_Witness ==
    /\ lastOp.kind = "declare"
    /\ lastOp.read_only
    /\ lastOp.listener = LStr("_on_change")
    /\ lastOp.outcome = "ValueError"
    /\ phase = "aborted"

C5_ReadOnlyStep ==
    /\ (lastOp'.kind = "declare" /\ lastOp'.read_only /\ lastOp'.outcome = "ok")
       => cls'[lastOp'.p].fset = "none"
    /\ (lastOp'.kind = "write" /\ cls[lastOp'.p].fset = "none")
       => /\ lastOp'.outcome = "AttributeError"
          /\ attrs' = attrs
          /\ methods' = methods
          /\ lastOp'.trace = <<>>
          /\ Len(stack') <= Len(stack)
    /\ (lastOp'.kind = "write" /\ lastOp'.outcome = "ok")
       => cls[lastOp'.p].fset \in {"plain", "listening"}

\* C5: a property declared read_only gets no setter, and every assignment
\* to it fails, changes no attribute and calls no listener.
C5_ReadOnlyRejectsWrites == [][C5_ReadOnlyStep]_vars

\* the constructor stored _speed = 1; the assignment speed = 0 then failed
\* and _speed is still 1
C5_Witness ==
    /\ lastOp.kind = "write"
    /\ cls[lastOp.p].fset = "none"
    /\ lastOp.outcome = "AttributeError"
    /\ lastOp.v = PyInt(0)
    /\ attrs[cls[lastOp.p].field] = PyInt(1)

\* C6 as stated: a read returns the backing value if the field is present,
\* and otherwise, and only then, calls the default-value function and
\* returns its result.
C6_DefaultOnlyWhenMissing ==
    lastOp.kind = "read"
    => /\ lastOp.result = GetAttr(attrs, cls[lastOp.p].field, DefaultValue)
       /\ (\E i \in 1..Len(lastOp.trace) : lastOp.trace[i].name = "f")
              <=> ~HasAttr(attrs, cls[lastOp.p].field)

C10_LookupStep ==
    LET p == lastOp'.p
        v == lastOp'.v
        lname == cls[p].listener_name
        changing == /\ lastOp'.kind = "write"
                    /\ cls[p].fset = "listening"
                    /\ PyNe(Backing(attrs, p), v)
    IN  /\ (changing /\ methods[lname] # NoMethod)
           => /\ lastOp'.outcome = "ok"
              /\ lastOp'.frame.method = methods[lname]
              /\ lastOp'.frame.name = lname
        /\ (changing /\ methods[lname] = NoMethod)
           => /\ lastOp'.outcome = "AttributeError"
              /\ lastOp'.frame = NoFrame
              /\ lastOp'.trace = ChangeWrites(p, v) \o <<EvGet(lname)>>
              /\ attrs' = ChangedAttrs(attrs, p, v)
        /\ (/\ lastOp'.kind = "write"
            /\ stack = <<>>
            /\ top.kind = "write" /\ top.p = p /\ top.v = v
            /\ top.fired /\ top.outcome = "AttributeError")
           => /\ lastOp'.outcome = "ok"
              /\ ~lastOp'.fired
              /\ attrs' = attrs
              /\ lastOp'.trace = <<>>

\* C10: the listener is looked up by name at each value-changing write, so
\* the method bound at that moment is the one called; if none is bound the
\* write fails with AttributeError after the backing field (and _is_dirty)
\* were written, nothing is rolled back, and assigning the same value again
\* right away neither fails nor notifies.
C10_ResolvedAtWriteTime == [][C10_LookupStep]_vars

\* no method is bound: speed = 1 failed, _speed is 1 and the flag is set,
\* and the repeated speed = 1 returned normally without a call
C10_Witness ==
    /\ Repeated
    /\ lastOp.before.outcome = "AttributeError"
    /\ lastOp.outcome = "ok"
    /\ ~lastOp.fired
    /\ methods[cls[lastOp.p].listener_name] = NoMethod
    /\ attrs[cls[lastOp.p].field] = PyInt(1)
    /\ attrs[DirtyFlag] = True

\* ------------------------------------------------------------------------
\* Properties of the dirty flag
\* ------------------------------------------------------------------------
\* a setter is built with auto-dirty exactly if the context's default or
\* the property's own auto_dirty is true, and with it every value-changing
\* assignment leaves _is_dirty = True
DirtyIsSet ==
    /\ (lastOp'.kind = "declare" /\ lastOp'.outcome = "ok" /\ ~lastOp'.read_only)
       => cls'[lastOp'.p].auto_dirty = (ctx._auto_dirty \/ lastOp'.auto_dirty)
    /\ (/\ lastOp'.kind = "write"
        /\ cls[lastOp'.p].fset \in {"plain", "listening"}
        /\ cls[lastOp'.p].auto_dirty
        /\ PyNe(Backing(attrs, lastOp'.p), lastOp'.v))
       => attrs'[DirtyFlag] = True

\* the step is a bulk initialization that copies a key named is_dirty
CopiesIsDirty ==
    /\ lastOp'.kind = "bulk"
    /\ \E i \in 1..Len(lastOp'.scope) :
           /\ Field(lastOp'.scope[i].k) = DirtyFlag
           /\ lastOp'.scope[i].k \notin lastOp'.exclude

\* C7 as stated: with effective auto-dirty every value-changing write sets
\* _is_dirty to True, and no read, write or bulk initialization ever takes
\* a True flag back.
C7_NeverCleared ==
    [][DirtyIsSet /\ (attrs[DirtyFlag] = True => attrs'[DirtyFlag] = True)]_vars

\* C7: with effective auto-dirty every value-changing write sets _is_dirty
\* to True, and a True flag stays True over every read, write and bulk
\* initialization except a bulk initialization that copies a key named
\* is_dirty, whose field is the flag itself.
C7_ClearedOnlyByNameClash ==
    [][/\ DirtyIsSet
       /\ (attrs[DirtyFlag] = True /\ ~CopiesIsDirty)
              => attrs'[DirtyFlag] = True]_vars

\* the context default made the property auto-dirty; after a bulk
\* initialization with save_args the assignment speed = 1 changed the value
\* and set the flag
C7_Witness ==
    /\ ctx._auto_dirty
    /\ cls["speed"].fset = "plain"
    /\ lastOp.kind = "write"
    /\ lastOp.trace = <<EvSet("_speed", PyInt(1)), EvSet(DirtyFlag, True)>>
    /\ attrs[DirtyFlag] = True
    /\ attrs[ArgsField] # Absent

\* ------------------------------------------------------------------------
\* Properties of self_properties
\* ------------------------------------------------------------------------
\* the entries self_properties copies, in iteration order
CopiedEntries(scope, exclude) ==
    LET Keep(e) == e.k # "self" /\ e.k \notin exclude
    IN  SelectSeq(scope, Keep)

CopiedValues(scope, exclude) ==
    LET c == CopiedEntries(scope, exclude)
    IN  [i \in 1..Len(c) |-> c[i].v]

\* the copies as attribute writes, one per copied entry, in order
CopyWrites(scope, exclude) ==
    LET c == CopiedEntries(scope, exclude)
    IN  [i \in 1..Len(c) |-> EvSet(Field(c[i].k), c[i].v)]

WritesTo(trace, name) == {i \in 1..Len(trace) : trace[i].name = name}
Count(f, x) == Cardinality({i \in DOMAIN f : f[i] = x})

\* C8 as stated: one write '_' + k = scope[k] per copied key and none for
\* 'self' or excluded keys, the same with and without save_args; with
\* save_args _args is afterwards the tuple of the copied values in order,
\* and without save_args _args is not written.
C8_ArgsOnlyWhenSaving ==
    lastOp.kind = "bulk"
    => LET scope == lastOp.scope
           copied(i) == scope[i].k # "self" /\ scope[i].k \notin lastOp.exclude
           copy(i) == EvSet(Field(scope[i].k), scope[i].v)
       IN  /\ \A i \in 1..Len(scope) :
                  Count(lastOp.trace, copy(i)) = IF copied(i) THEN 1 ELSE 0
           /\ WritesTo(lastOp.trace, Field("self")) = {}
           /\ lastOp.save_args
                 => attrs[ArgsField] = Tuple(CopiedValues(scope, lastOp.exclude))
           /\ ~lastOp.save_args => WritesTo(lastOp.trace, ArgsField) = {}

\* the value an attribute holds after a sequence of writes
RECURSIVE AfterWrites(_, _)
AfterWrites(a, trace) ==
    IF trace = <<>> THEN a
    ELSE AfterWrites(SetAttr(a, trace[1].name, trace[1].val), Tail(trace))

C8_BulkStep ==
    lastOp'.kind = "bulk"
    => LET copies == CopyWrites(lastOp'.scope, lastOp'.exclude)
           tuple == Tuple(CopiedValues(lastOp'.scope, lastOp'.exclude))
       IN  /\ lastOp'.trace =
                  IF lastOp'.save_args
                  THEN Append(copies, EvSet(ArgsField, tuple))
                  ELSE copies
           /\ attrs' = AfterWrites(attrs, lastOp'.trace)
           /\ lastOp'.save_args => attrs'[ArgsField] = tuple
           /\ WritesTo(lastOp'.trace, Field("self")) = {}

\* C8: the writes are exactly one '_' + k = scope[k] per copied key, in
\* iteration order, the same with and without save_args, followed with
\* save_args by the write of _args = the tuple of the copied values; no
\* other attribute changes.  Without save_args _args is written only as the
\* copy of a key named args.
C8_CopiesThenArgs == [][C8_BulkStep]_vars

\* {'self': obj, 'speed': 1, 'is_dirty': 0} with save_args: _speed = 1,
\* _is_dirty = 0 and _args = (1, 0)
C8_Witness ==
    /\ lastOp.kind = "bulk"
    /\ lastOp.save_args
    /\ lastOp.exclude = {}
    /\ lastOp.scope = <<[k |-> "self", v |-> Obj],
                        [k |-> "speed", v |-> PyInt(1)],
                        [k |-> "is_dirty", v |-> PyInt(0)]>>
    /\ attrs[ArgsField] = Tuple(<<PyInt(1), PyInt(0)>>)
    /\ attrs["_speed"] = PyInt(1)
    /\ attrs["_self"] = Absent

\* ------------------------------------------------------------------------
\* Properties of concurrent assignments
\* ------------------------------------------------------------------------
Quiescent == \A t \in Threads : thr[t].pc = "idle"

\* the changes of the backing field, and the (old, new) pairs notified
Changes == [i \in 1..(Len(hist) - 1) |-> <<hist[i], hist[i + 1]>>]
Notified == [i \in 1..Len(notifs) |-> <<notifs[i][2], notifs[i][3]>>]
Range(f) == {f[i] : i \in DOMAIN f}

\* C9: the setter's steps are not atomic.  As long as no setter writes after
\* another thread wrote behind its back, every notification is a change the
\* backing field went through and every change is notified once (possibly
\* out of order); when two setters interleave between reading the old value
\* and writing, a notification can carry a pair that is no change the field
\* went through, and a change of the field can go without its notification.
C9_ConsistentUnlessRaced ==
    (Quiescent /\ ~raced)
    => /\ \A x \in Range(Notified) \cup Range(Changes) :
              Count(Notified, x) = Count(Changes, x)
       /\ \A i \in 1..Len(notifs) : notifs[i][1] = cls[ConcProp].field

\* both threads read None, then wrote 0 and 1: (None, 1) was notified though
\* the field went from 0 to 1, and no notification tells of that change
C9_Witness ==
    /\ Quiescent
    /\ raced
    /\ \E n \in Range(Notified) : n \notin Range(Changes)
    /\ \E c \in Range(Changes) : c[1] # c[2] /\ c \notin Range(Notified)

====
